---- MODULE Spec2Model ----
(***************************************************************************)
(* Model of the ayab-patterns ROM tools.                                   *)
(*                                                                         *)
(*   romscan.py          the matching batch: exact pass, fuzzy pass, gap   *)
(*                       set, report, zeroed ROM copy      (SpecScan)      *)
(*   extract_patterns.py the decode pipeline: pattern index, memo data,    *)
(*                       bitmap extraction                 (SpecExtract)   *)
(*   bcd_to_int          the BCD codec as a pure function  (SpecBcd)       *)
(*                                                                         *)
(* Addresses are 0-based as in Python; a Python byte string b is the       *)
(* sequence whose element k+1 is b[k].                                     *)
(***************************************************************************)
EXTENDS Integers, Sequences, FiniteSets, TLC

VARIABLES
    rom_data,         \* the ROM buffer (both programs)
    patterns,         \* romscan: list of (basename, byte_data, height)
    pc,               \* position of the running program
    n,                \* index of the next element of the loop in progress
    gaps,             \* romscan: current search ranges
    results,          \* romscan: accepted matches
    not_found,        \* romscan: candidates whose exact search returned None
    ambiguous,        \* romscan: basenames whose exact search was ambiguous
    still_not_found,  \* romscan: basenames whose fuzzy search returned None
    search_log,       \* history: one entry per search call, in call order
    results_sorted,   \* romscan: results sorted by start offset
    printed,          \* romscan: names printed under "Not found in ROM:"
    rom_zeroed,       \* romscan: bytes written to kh970-rom-zeroed.bin
    descriptors,      \* extract_patterns: list returned by read_pattern_index
    saved,            \* extract_patterns: pattern images saved, in order
    errors,           \* extract_patterns: pattern numbers of reported errors
    bcd_in,           \* bcd_to_int: argument
    bcd_out,          \* bcd_to_int: returned value
    memo_in,          \* memo_value_to_char: the values converted
    memo_out          \* memo_value_to_char: what each call returned or raised

vars == <<rom_data, patterns, pc, n, gaps, results, not_found, ambiguous,
          still_not_found, search_log, results_sorted, printed, rom_zeroed,
          descriptors,
          saved, errors, bcd_in, bcd_out, memo_in, memo_out>>

scanVars == <<patterns, gaps, results, not_found, ambiguous, still_not_found,
              search_log, results_sorted, printed, rom_zeroed>>
extractVars == <<descriptors, saved, errors>>
bcdVars == <<bcd_in, bcd_out>>
memoVars == <<memo_in, memo_out>>

-----------------------------------------------------------------------------
(* Bounds of the model                                                     *)

\* Address of the pattern index and start of the search window; 0x50000 in
\* the source, scaled down so that the ROM can be enumerated.
index_base == 2

\* Number of ROM bytes from index_base to the end of the ROM (romscan model).
RomWindow == 6

\* Largest height of a candidate image; candidates are one byte wide, so
\* this is also the largest packed length.
MaxHeight == 2

\* Bytes of the pattern index table inside the search window; 683 * 12 in
\* the ROM layout, scaled down with the window.
IndexTableLen == 1

\* Records of the pattern index; 683 in the source, scaled down so that the
\* index can be enumerated.
PATTERN_COUNT == 2

PATTERN_RECORD_SIZE == 12

\* Longest argument of bcd_to_int in the model of the codec.
MaxBcdLen == 2

\* Most rows of memo data parsed in the model of the memo codec.
MaxMemoRows == 2

\* Byte values found in the modelled ROM window and in the candidates.
RomBytes == {0, 1}

\* Base names of the candidate image files, in command-line order.
PatternNames == <<"a", "b">>

-----------------------------------------------------------------------------
(* Generic helpers                                                         *)

Min(a, b) == IF a < b THEN a ELSE b

\* Python slice s[lo:hi] of a byte string, for 0 <= lo; hi is clamped.
Slice(s, lo, hi) ==
    LET h == Min(hi, Len(s))
    IN  IF lo >= h THEN <<>> ELSE [k \in 1..(h - lo) |-> s[lo + k]]

Bit(b, k) == (b \div (2 ^ k)) % 2

\* bin(b1 ^ b2).count('1')
XorPopcount(b1, b2) ==
    Cardinality({k \in 0..7 : Bit(b1, k) # Bit(b2, k)})

RECURSIVE SumSeq(_)
SumSeq(s) == IF s = <<>> THEN 0 ELSE Head(s) + SumSeq(Tail(s))

-----------------------------------------------------------------------------
(* romscan.py                                                              *)

rom_size == Len(rom_data)

hamming_distance(bytes1, bytes2) ==
    SumSeq([k \in 1..Min(Len(bytes1), Len(bytes2)) |->
               XorPopcount(bytes1[k], bytes2[k])])

\* bytes.find(pattern, lo, hi): lowest index i >= lo with the whole
\* occurrence inside [lo, min(hi, len)), or -1.
RECURSIVE Find(_, _, _, _)
Find(data, pattern, lo, hi) ==
    IF lo + Len(pattern) > Min(hi, Len(data)) THEN -1
    ELSE IF Slice(data, lo, lo + Len(pattern)) = pattern THEN lo
    ELSE Find(data, pattern, lo + 1, hi)

PrefixLen(height) == (height + 1) \div 2

\* the while loop of exact_search_in_rom over one range
RECURSIVE ExactScanRange(_, _, _)
ExactScanRange(pattern, pos, end_pos) ==
    IF ~(pos < end_pos) THEN <<>>
    ELSE LET p == Find(rom_data, pattern, pos, end_pos)
         IN  IF p < 0 THEN <<>>
             ELSE <<p>> \o ExactScanRange(pattern, p + 1, end_pos)

\* the for loop of exact_search_in_rom: the list `matches`
RECURSIVE ExactMatches(_, _, _)
ExactMatches(pattern, height, search_ranges) ==
    IF search_ranges = <<>> THEN <<>>
    ELSE LET start_pos == Head(search_ranges)[1]
             end_pos == Head(search_ranges)[2]
             here == IF PrefixLen(height) + Len(pattern) > end_pos - start_pos
                     THEN <<>>
                     ELSE ExactScanRange(pattern, start_pos + PrefixLen(height),
                                         end_pos)
         IN  here \o ExactMatches(pattern, height, Tail(search_ranges))

NoneResult == [tag |-> "None"]
AmbiguousResult == [tag |-> "ambiguous"]
\* the tuple (offset, end, distance); distance is <<>> for None, <<d>> for d
MatchResult(start, end, distance) ==
    [tag |-> "match", start |-> start, end |-> end, distance |-> distance]

\* a bug: with several occurrences the first one is returned
exact_search_in_rom_FirstWins(pattern, height, search_ranges) ==
    LET matches == ExactMatches(pattern, height, search_ranges)
    IN  IF matches = <<>> THEN NoneResult
        ELSE MatchResult(matches[1] - PrefixLen(height),
                         matches[1] + Len(pattern), <<>>)

exact_search_in_rom(pattern, height, search_ranges) ==
    LET matches == ExactMatches(pattern, height, search_ranges)
    IN  IF matches = <<>> THEN NoneResult
        ELSE IF Len(matches) > 1 THEN AmbiguousResult
        ELSE MatchResult(matches[1] - PrefixLen(height),
                         matches[1] + Len(pattern), <<>>)

\* float('inf'): a value above every Hamming distance to `pattern`
Infinity(pattern) == 8 * Len(pattern) + 1

\* int(pattern_len * 8 * 0.1)
MaxErrors(pattern) == (Len(pattern) * 8) \div 10

\* body of the inner for loop of fuzzy_search_in_rom at one position;
\* st holds best_pos, best_distance and found_positions
FuzzyVisit(st, pattern, pos) ==
    LET distance == hamming_distance(pattern,
                        Slice(rom_data, pos, pos + Len(pattern)))
    IN  IF distance <= MaxErrors(pattern)
        THEN [best_pos |-> IF distance < st.best_distance
                           THEN pos ELSE st.best_pos,
              best_distance |-> IF distance < st.best_distance
                                THEN distance ELSE st.best_distance,
              found_positions |-> Append(st.found_positions,
                                         <<pos, distance>>)]
        ELSE st

\* for pos in range(pos, stop)
RECURSIVE FuzzyScanRange(_, _, _, _)
FuzzyScanRange(st, pattern, pos, stop) ==
    IF pos >= stop THEN st
    ELSE FuzzyScanRange(FuzzyVisit(st, pattern, pos), pattern, pos + 1, stop)

\* for start_pos, end_pos in search_ranges
RECURSIVE FuzzyScan(_, _, _)
FuzzyScan(st, pattern, search_ranges) ==
    IF search_ranges = <<>> THEN st
    ELSE LET start_pos == Head(search_ranges)[1]
             end_pos == Head(search_ranges)[2]
             st2 == IF Len(pattern) > end_pos - start_pos THEN st
                    ELSE FuzzyScanRange(st, pattern, start_pos,
                                        end_pos - Len(pattern) + 1)
         IN  FuzzyScan(st2, pattern, Tail(search_ranges))

\* a bug: on a tie at the best distance the first best position is returned
fuzzy_search_in_rom_TieWins(pattern, height, search_ranges) ==
    LET st == FuzzyScan([best_pos |-> -1,
                         best_distance |-> Infinity(pattern),
                         found_positions |-> <<>>],
                        pattern, search_ranges)
    IN  IF st.best_pos < 0 THEN NoneResult
        ELSE MatchResult(st.best_pos - ((height + 1) \div 2),
                         st.best_pos + Len(pattern), <<st.best_distance>>)

fuzzy_search_in_rom(pattern, height, search_ranges) ==
    LET st == FuzzyScan([best_pos |-> -1,
                         best_distance |-> Infinity(pattern),
                         found_positions |-> <<>>],
                        pattern, search_ranges)
        best_matches ==
            Cardinality({k \in 1..Len(st.found_positions) :
                            st.found_positions[k][2] = st.best_distance})
    IN  IF st.best_pos < 0 THEN NoneResult
        ELSE IF best_matches > 1 THEN NoneResult
        ELSE MatchResult(st.best_pos - ((height + 1) \div 2),
                         st.best_pos + Len(pattern), <<st.best_distance>>)

search_pattern(byte_data, height, search_ranges) ==
    LET result == exact_search_in_rom(byte_data, height, search_ranges)
    IN  IF result = AmbiguousResult
        THEN [result |-> NoneResult, is_ambiguous |-> TRUE]
        ELSE [result |-> result, is_ambiguous |-> FALSE]

\* sorted(results, key=lambda x: x[1][0]): stable, by increasing start
RECURSIVE InsertByStart(_, _)
InsertByStart(x, s) ==
    IF s = <<>> THEN <<x>>
    ELSE IF x.result.start < Head(s).result.start THEN <<x>> \o s
    ELSE <<Head(s)>> \o InsertByStart(x, Tail(s))

RECURSIVE SortedByStart(_)
SortedByStart(s) ==
    IF s = <<>> THEN <<>>
    ELSE InsertByStart(s[Len(s)], SortedByStart(SubSeq(s, 1, Len(s) - 1)))

\* the for loop of find_gaps; acc holds gaps and last_end
RECURSIVE GapsLoop(_, _)
GapsLoop(acc, sorted) ==
    IF sorted = <<>> THEN acc
    ELSE LET start == Head(sorted).result.start
             end == Head(sorted).result.end
         IN  GapsLoop([gaps |-> IF start > acc.last_end
                                THEN Append(acc.gaps, <<acc.last_end, start>>)
                                ELSE acc.gaps,
                       last_end |-> end],
                      Tail(sorted))

find_gaps(res, size) ==
    LET acc == GapsLoop([gaps |-> <<>>, last_end |-> index_base],
                        SortedByStart(res))
    IN  IF acc.last_end < size
        THEN Append(acc.gaps, <<acc.last_end, size>>)
        ELSE acc.gaps

\* patterns.sort(key=lambda p: len(p[2]), reverse=True): stable, by
\* decreasing packed length
RECURSIVE InsertByLen(_, _)
InsertByLen(x, s) ==
    IF s = <<>> THEN <<x>>
    ELSE IF Len(x.byte_data) > Len(Head(s).byte_data) THEN <<x>> \o s
    ELSE <<Head(s)>> \o InsertByLen(x, Tail(s))

\* a bug: the candidates are left in command-line order
SortedByLen_Unsorted(s) == s

RECURSIVE SortedByLen(_)
SortedByLen(s) ==
    IF s = <<>> THEN <<>>
    ELSE InsertByLen(s[Len(s)], SortedByLen(SubSeq(s, 1, Len(s) - 1)))

\* a bug: the last byte of the range is left as it was
ZeroSlice_OneShort(copy, start, length) ==
    Slice(copy, 0, start) \o [k \in 1..(length - 1) |-> 0]
        \o Slice(copy, start + length - 1, Len(copy))

\* rom_data_copy[start:start+length] = bytes(length)
ZeroSlice(copy, start, length) ==
    Slice(copy, 0, start) \o [k \in 1..length |-> 0]
        \o Slice(copy, start + length, Len(copy))

RECURSIVE ZeroLoop(_, _)
ZeroLoop(copy, sorted) ==
    IF sorted = <<>> THEN copy
    ELSE LET start == Head(sorted).result.start
             end == Head(sorted).result.end
         IN  ZeroLoop(ZeroSlice(copy, start, end - start), Tail(sorted))

zero_patterns_in_rom(sorted) == ZeroLoop(rom_data, sorted)

-----------------------------------------------------------------------------
(* romscan.py: the batch ("Main processing")                               *)

\* Candidates as load_patterns returns them: an image with exactly two
\* colours, one byte per row, hence at least one set bit.
Candidates ==
    UNION {{[byte_data |-> b, height |-> h] :
               b \in {x \in [1..h -> RomBytes] : \E k \in 1..h : x[k] # 0}} :
           h \in 1..MaxHeight}

\* The images given on the command line, in command-line order; the k-th
\* file is named PatternNames[k].
PatternLists ==
    UNION {{[j \in 1..k |-> [basename |-> PatternNames[j],
                             byte_data |-> f[j].byte_data,
                             height |-> f[j].height]] :
               f \in [1..k -> Candidates]} :
           k \in 1..Len(PatternNames)}

\* ROM images: the bytes below index_base are never searched and are fixed
\* to a non-zero value; the window is enumerated.
RomImages ==
    {[k \in 1..index_base |-> 1] \o w : w \in [1..RomWindow -> RomBytes]}

idleExtract ==
    /\ descriptors = <<>>
    /\ saved = <<>>
    /\ errors = <<>>

idleBcd ==
    /\ bcd_in = <<>>
    /\ bcd_out = 0

idleMemo ==
    /\ memo_in = <<>>
    /\ memo_out = <<>>

InitScan ==
    /\ rom_data \in RomImages
    /\ patterns \in PatternLists
    /\ pc = "sort"
    /\ n = 1
    /\ gaps = <<>>
    /\ results = <<>>
    /\ not_found = <<>>
    /\ ambiguous = <<>>
    /\ still_not_found = <<>>
    /\ search_log = <<>>
    /\ results_sorted = <<>>
    /\ printed = {}
    /\ rom_zeroed = <<>>
    /\ idleExtract
    /\ idleBcd
    /\ idleMemo

\* lines 231-239: sort the candidates, open the whole window as one gap
SortPatterns ==
    /\ pc = "sort"
    /\ patterns' = SortedByLen(patterns)
    /\ gaps' = << <<index_base, rom_size>> >>
    /\ pc' = "exact"
    /\ n' = 1
    /\ UNCHANGED <<rom_data, results, not_found, ambiguous, still_not_found,
                   search_log, results_sorted, printed, rom_zeroed>>
    /\ UNCHANGED <<extractVars, bcdVars, memoVars>>

LogEntry(kind, p, ranges, outcome) ==
    [kind |-> kind, basename |-> p.basename, byte_data |-> p.byte_data,
     height |-> p.height, gaps |-> ranges, outcome |-> outcome]

\* lines 241-251: one iteration of the exact pass
ExactStep ==
    /\ pc = "exact"
    /\ n <= Len(patterns)
    /\ LET p == patterns[n]
           raw == exact_search_in_rom(p.byte_data, p.height, gaps)
           r == search_pattern(p.byte_data, p.height, gaps)
       IN  /\ search_log' = Append(search_log, LogEntry("exact", p, gaps, raw))
           /\ IF r.result # NoneResult
              THEN /\ results' = Append(results,
                          [basename |-> p.basename, result |-> r.result,
                           fuzzy |-> FALSE])
                   /\ gaps' = find_gaps(results', rom_size)
                   /\ UNCHANGED <<ambiguous, not_found>>
              ELSE IF r.is_ambiguous
              THEN /\ ambiguous' = Append(ambiguous, p.basename)
                   /\ UNCHANGED <<results, gaps, not_found>>
              ELSE /\ not_found' = Append(not_found, p)
                   /\ UNCHANGED <<results, gaps, ambiguous>>
    /\ n' = n + 1
    /\ UNCHANGED <<rom_data, patterns, pc, still_not_found, results_sorted,
                   printed, rom_zeroed>>
    /\ UNCHANGED <<extractVars, bcdVars, memoVars>>

\* lines 253-257: the exact pass is over
EndExactPass ==
    /\ pc = "exact"
    /\ n > Len(patterns)
    /\ gaps' = find_gaps(results, rom_size)
    /\ pc' = "fuzzy"
    /\ n' = 1
    /\ UNCHANGED <<rom_data, patterns, results, not_found, ambiguous,
                   still_not_found, search_log, results_sorted, printed,
                   rom_zeroed>>
    /\ UNCHANGED <<extractVars, bcdVars, memoVars>>

\* lines 261-282: one iteration of the fuzzy pass
FuzzyStep ==
    /\ pc = "fuzzy"
    /\ n <= Len(not_found)
    /\ LET p == not_found[n]
           result == fuzzy_search_in_rom(p.byte_data, p.height, gaps)
       IN  /\ search_log' = Append(search_log,
                                   LogEntry("fuzzy", p, gaps, result))
           /\ IF result # NoneResult
              THEN /\ results' = Append(results,
                          [basename |-> p.basename, result |-> result,
                           fuzzy |-> TRUE])
                   /\ gaps' = find_gaps(results', rom_size)
                   /\ UNCHANGED still_not_found
              ELSE /\ still_not_found' = Append(still_not_found, p.basename)
                   /\ UNCHANGED <<results, gaps>>
    /\ n' = n + 1
    /\ UNCHANGED <<rom_data, patterns, pc, not_found, ambiguous,
                   results_sorted, printed, rom_zeroed>>
    /\ UNCHANGED <<extractVars, bcdVars, memoVars>>

\* lines 284-302: the report; `printed` is the set of names listed under
\* "Not found in ROM:" (their alphabetical order is not modelled)
Report ==
    /\ pc = "fuzzy"
    /\ n > Len(not_found)
    /\ results_sorted' = SortedByStart(results)
    /\ printed' = {still_not_found[k] : k \in
                     {j \in 1..Len(still_not_found) :
                         \A a \in 1..Len(ambiguous) :
                             ambiguous[a] # still_not_found[j]}}
    /\ pc' = "zero"
    /\ UNCHANGED <<rom_data, patterns, n, gaps, results, not_found, ambiguous,
                   still_not_found, search_log, rom_zeroed>>
    /\ UNCHANGED <<extractVars, bcdVars, memoVars>>

\* lines 304-319: write the zeroed copy
ZeroPatterns ==
    /\ pc = "zero"
    /\ rom_zeroed' = zero_patterns_in_rom(results_sorted)
    /\ pc' = "done"
    /\ UNCHANGED <<rom_data, patterns, n, gaps, results, not_found, ambiguous,
                   still_not_found, search_log, results_sorted, printed>>
    /\ UNCHANGED <<extractVars, bcdVars, memoVars>>

NextScan ==
    \/ SortPatterns
    \/ ExactStep
    \/ EndExactPass
    \/ FuzzyStep
    \/ Report
    \/ ZeroPatterns

SpecScan == InitScan /\ [][NextScan]_vars

-----------------------------------------------------------------------------
(* Claims about romscan.py, checked under SpecScan                         *)

Window == index_base..(rom_size - 1)

\* accepted ranges [start, end) of a result list, as pairs
RangeOf(r) == <<r.result.start, r.result.end>>
InRange(a, g) == g[1] <= a /\ a < g[2]
Covering(a, ranges) == Cardinality({k \in 1..Len(ranges) : InRange(a, ranges[k])})

MatchEntries == {k \in 1..Len(search_log) : search_log[k].outcome.tag = "match"}

\* C1: the gap set returned by find_gaps together with the accepted
\* [start, end) ranges reconstructs exactly the search window
\* [index_base, rom_length): every address of the window lies in exactly one
\* gap or exactly one accepted range, and no gap or range leaves the window.
C1_GapSetInvariant ==
    pc # "sort" =>
        LET gs == find_gaps(results, rom_size)
            rs == [k \in 1..Len(results) |-> RangeOf(results[k])]
        IN  /\ \A a \in Window : Covering(a, gs) + Covering(a, rs) = 1
            /\ \A k \in 1..Len(gs) :
                  index_base <= gs[k][1] /\ gs[k][2] <= rom_size
            /\ \A k \in 1..Len(rs) :
                  index_base <= rs[k][1] /\ rs[k][2] <= rom_size

\* the same statement over the matches accepted by the exact pass alone
C1_ExactOnly ==
    (pc = "exact" /\ n > 1) =>
        LET gs == find_gaps(results, rom_size)
            rs == [k \in 1..Len(results) |-> RangeOf(results[k])]
        IN  /\ \A a \in Window : Covering(a, gs) + Covering(a, rs) = 1
            /\ \A k \in 1..Len(rs) :
                  index_base <= rs[k][1] /\ rs[k][2] <= rom_size

InsideOneGap(e) ==
    \E g \in 1..Len(e.gaps) :
        e.gaps[g][1] <= e.outcome.start /\ e.outcome.end <= e.gaps[g][2]

IndexTable == index_base..(index_base + IndexTableLen - 1)

OutsideIndexTable(e) ==
    \A a \in IndexTable : ~InRange(a, <<e.outcome.start, e.outcome.end>>)

\* C2: every match returned by exact_search_in_rom or fuzzy_search_in_rom
\* has its whole range [start, end), memo prefix included, inside a single
\* gap of the gap set it was given, and does not intersect the index table.
C2_SearchInsideGaps ==
    \A k \in MatchEntries :
        InsideOneGap(search_log[k]) /\ OutsideIndexTable(search_log[k])

\* the parts of C2 taken one at a time
C2_ExactInsideOneGap ==
    \A k \in MatchEntries :
        search_log[k].kind = "exact" => InsideOneGap(search_log[k])
C2_FuzzyInsideOneGap ==
    \A k \in MatchEntries :
        search_log[k].kind = "fuzzy" => InsideOneGap(search_log[k])
C2_OutsideIndexTable ==
    \A k \in MatchEntries : OutsideIndexTable(search_log[k])

\* positions P of an occurrence of e's bytes that starts at least prefix_len
\* past the start of a gap of e and ends inside that gap
Occurrences(e) ==
    {P \in 0..rom_size :
        /\ \E g \in 1..Len(e.gaps) :
              /\ e.gaps[g][1] + ((e.height + 1) \div 2) <= P
              /\ P + Len(e.byte_data) <= e.gaps[g][2]
        /\ P + Len(e.byte_data) <= rom_size
        /\ \A k \in 1..Len(e.byte_data) : rom_data[P + k] = e.byte_data[k]}

ExactEntries == {k \in 1..Len(search_log) : search_log[k].kind = "exact"}
FuzzyEntries == {k \in 1..Len(search_log) : search_log[k].kind = "fuzzy"}

\* C3: exact search returns the single match (P - prefix_len,
\* P + len(pattern), no distance) when the bytes occur at exactly one
\* position P across the gaps, the ambiguous outcome when they occur at two
\* or more, and no match when they occur at none.
C3_ExactOutcome ==
    \A k \in ExactEntries :
        LET e == search_log[k]
            occ == Occurrences(e)
        IN  /\ Cardinality(occ) = 0 => e.outcome = [tag |-> "None"]
            /\ Cardinality(occ) >= 2 => e.outcome = [tag |-> "ambiguous"]
            /\ Cardinality(occ) = 1 =>
                  \E P \in occ :
                      e.outcome = [tag |-> "match",
                                   start |-> P - ((e.height + 1) \div 2),
                                   end |-> P + Len(e.byte_data),
                                   distance |-> <<>>]

\* an exact search over a gap set of two gaps, left by an earlier accepted
\* match, that returned a single match
C3_Witness ==
    \E k \in ExactEntries :
        /\ search_log[k].outcome.tag = "match"
        /\ Len(search_log[k].gaps) = 2

\* bits in which the window at pos differs from e's bytes
BitDistance(e, pos) ==
    Cardinality({kb \in (1..Len(e.byte_data)) \X (0..7) :
        (rom_data[pos + kb[1]] \div 2 ^ kb[2]) % 2
            # (e.byte_data[kb[1]] \div 2 ^ kb[2]) % 2})

\* positions of the gaps of e where a window of len(pattern) bytes fits
Fitting(e) ==
    {pos \in 0..rom_size :
        /\ \E g \in 1..Len(e.gaps) :
              e.gaps[g][1] <= pos /\ pos + Len(e.byte_data) <= e.gaps[g][2]
        /\ pos + Len(e.byte_data) <= rom_size}

\* the qualifying positions that attain the minimum distance among the
\* qualifying positions (distance <= floor(len * 8 * 0.10))
Minimal(e) ==
    LET d == [pos \in Fitting(e) |-> BitDistance(e, pos)]
        qualifying == {pos \in Fitting(e) :
                          10 * d[pos] <= Len(e.byte_data) * 8}
    IN  {pos \in qualifying : \A q \in qualifying : d[pos] <= d[q]}

\* C4: fuzzy search accepts a match iff exactly one qualifying position
\* attains the minimum distance among the qualifying windows, and then
\* returns (pos - prefix_len, pos + len(pattern), that distance); with no
\* qualifying window, or a tie at the minimum, it returns no match.
C4_FuzzyOutcome ==
    \A k \in FuzzyEntries :
        LET e == search_log[k]
            best == Minimal(e)
        IN  IF Cardinality(best) = 1
            THEN \E pos \in best :
                    e.outcome = [tag |-> "match",
                                 start |-> pos - ((e.height + 1) \div 2),
                                 end |-> pos + Len(e.byte_data),
                                 distance |-> <<BitDistance(e, pos)>>]
            ELSE e.outcome = [tag |-> "None"]

\* a run whose fuzzy pass accepted a unique best window that differs from
\* the candidate, and rejected another candidate on a tie at the minimum
C4_Witness ==
    /\ \E k \in FuzzyEntries :
          /\ search_log[k].outcome.tag = "match"
          /\ search_log[k].outcome.distance # <<0>>
    /\ \E k \in FuzzyEntries :
          /\ search_log[k].outcome.tag = "None"
          /\ Cardinality(Minimal(search_log[k])) >= 2

\* accepted matches among the first k entries of the log, in call order
RECURSIVE AcceptedIn(_)
AcceptedIn(log) ==
    IF log = <<>> THEN <<>>
    ELSE LET e == log[Len(log)]
             before == AcceptedIn(SubSeq(log, 1, Len(log) - 1))
         IN  IF e.outcome.tag = "match"
             THEN Append(before, [basename |-> e.basename,
                                  result |-> e.outcome])
             ELSE before

\* base names of the entries of kind `kind` whose outcome is tagged `tag`
RECURSIVE NamesWith(_, _, _)
NamesWith(log, kind, tags) ==
    IF log = <<>> THEN <<>>
    ELSE LET e == Head(log)
         IN  (IF e.kind = kind /\ e.outcome.tag \in tags
              THEN <<e.basename>> ELSE <<>>)
                 \o NamesWith(Tail(log), kind, tags)

IsPrefix(s, t) == Len(s) <= Len(t) /\ SubSeq(t, 1, Len(s)) = s

\* C5: candidates are exact-searched in non-increasing order of packed
\* length; every search sees the gap set computed from all matches accepted
\* before it; no fuzzy search starts before every candidate was
\* exact-searched; the fuzzy pass retries exactly the candidates whose exact
\* search returned no match, in the same order.
C5_BatchOrdering ==
    /\ \A j, k \in ExactEntries :
          j < k => Len(search_log[j].byte_data) >= Len(search_log[k].byte_data)
    /\ \A k \in 1..Len(search_log) :
          search_log[k].gaps
              = find_gaps(AcceptedIn(SubSeq(search_log, 1, k - 1)), rom_size)
    /\ \A j \in FuzzyEntries :
          /\ \A k \in ExactEntries : k < j
          /\ Cardinality(ExactEntries) = Len(patterns)
    /\ IsPrefix(NamesWith(search_log, "fuzzy", {"None", "match"}),
                NamesWith(search_log, "exact", {"None"}))
    /\ pc \in {"zero", "done"} =>
          /\ NamesWith(search_log, "fuzzy", {"None", "match"})
                = NamesWith(search_log, "exact", {"None"})
          /\ Cardinality(ExactEntries) = Len(patterns)

\* a finished run whose two candidates were reordered by the sort, the first
\* accepted by the exact pass and the second by the fuzzy pass
C5_Witness ==
    /\ pc = "done"
    /\ Len(search_log) = 3
    /\ search_log[1].basename = PatternNames[2]
    /\ search_log[1].outcome.tag = "match"
    /\ search_log[2].outcome.tag = "None"
    /\ search_log[3].kind = "fuzzy"
    /\ search_log[3].outcome.tag = "match"
    /\ search_log[3].gaps # search_log[1].gaps

\* candidates flagged ambiguous: two or more exact occurrences, or two or
\* more qualifying windows tied at the minimum distance
FlaggedAmbiguous ==
    {search_log[k].basename : k \in
        {j \in 1..Len(search_log) :
            \/ /\ search_log[j].kind = "exact"
               /\ Cardinality(Occurrences(search_log[j])) >= 2
            \/ /\ search_log[j].kind = "fuzzy"
               /\ Cardinality(Minimal(search_log[j])) >= 2}}

AcceptedNames == {results[k].basename : k \in 1..Len(results)}

\* C6: at the end of a batch, a candidate flagged ambiguous at any point has
\* no accepted match and is not listed as not found; only candidates
\* unmatched after both passes and never ambiguous are listed.
C6_AmbiguityReporting ==
    pc = "done" =>
        /\ \A b \in FlaggedAmbiguous : b \notin AcceptedNames /\ b \notin printed
        /\ \A b \in printed : b \notin AcceptedNames /\ b \notin FlaggedAmbiguous

\* the same statement for candidates the exact search found ambiguous
C6_ExactAmbiguityOnly ==
    pc = "done" =>
        \A k \in ExactEntries :
            Cardinality(Occurrences(search_log[k])) >= 2 =>
                /\ search_log[k].basename \notin AcceptedNames
                /\ search_log[k].basename \notin printed

\* C7: the buffer zero_patterns_in_rom writes has the length of the ROM, is
\* 0 at every address inside an accepted [start, end) range and equals the
\* ROM everywhere else, and the ROM buffer itself is unchanged.
C7_ZeroFrame ==
    [][pc = "zero" =>
          /\ rom_data' = rom_data
          /\ Len(rom_zeroed') = Len(rom_data)
          /\ \A a \in 0..(Len(rom_data) - 1) :
                IF \E k \in 1..Len(results) : InRange(a, RangeOf(results[k]))
                THEN rom_zeroed'[a + 1] = 0
                ELSE rom_zeroed'[a + 1] = rom_data[a + 1]]_vars

\* a zeroed copy for two accepted matches, one of them starting below the
\* search window, that still holds a non-zero byte inside the window
C7_Witness ==
    /\ pc = "done"
    /\ Len(results) = 2
    /\ \E k \in 1..2 : results[k].result.start < index_base
    /\ \E a \in Window : rom_zeroed[a + 1] # 0
    /\ \E a \in Window : rom_zeroed[a + 1] # rom_data[a + 1]

-----------------------------------------------------------------------------
(* extract_patterns.py                                                     *)

VALID_HEADERS == {<<2, 0>>, <<3, 0>>}

\* the for loop of bcd_to_int; acc holds result and multiplier
RECURSIVE BcdLoop(_, _)
BcdLoop(acc, bytes) ==
    IF bytes = <<>> THEN acc
    ELSE LET b == Head(bytes)
             low_digit == b % 16
             high_digit == (b \div 16) % 16
         IN  BcdLoop([result |-> acc.result
                                   + (low_digit + high_digit * 10)
                                       * acc.multiplier,
                      multiplier |-> acc.multiplier * 100],
                     Tail(bytes))

\* a bug: the first byte is taken as the most significant digit pair
bcd_to_int_MsbFirst(bytes) ==
    BcdLoop([result |-> 0, multiplier |-> 1],
            [k \in 1..Len(bytes) |-> bytes[Len(bytes) + 1 - k]]).result

bcd_to_int(bytes) == BcdLoop([result |-> 0, multiplier |-> 1], bytes).result

\* (bytes[0] << 16) | (bytes[2] << 8) | bytes[1], for bytes below 256
decode_pattern_offset(bytes) ==
    bytes[1] * 65536 + bytes[3] * 256 + bytes[2]

\* a bug: the record kind is read from the first header byte alone
HeaderValid_FirstByteOnly(record) == record[1] \in {2, 3}

\* record[0:2] in VALID_HEADERS
HeaderValid(record) == Slice(record, 0, 2) \in VALID_HEADERS

\* the for loop of read_pattern_index, from record i on
RECURSIVE IndexLoop(_, _)
IndexLoop(rom, i) ==
    IF i >= PATTERN_COUNT THEN <<>>
    ELSE LET record == Slice(rom, index_base + i * PATTERN_RECORD_SIZE,
                             index_base + (i + 1) * PATTERN_RECORD_SIZE)
         IN  IF ~HeaderValid(record)
             THEN IndexLoop(rom, i + 1)
             ELSE <<[type |-> record[1],
                     number |-> bcd_to_int(Slice(record, 2, 4)),
                     width |-> bcd_to_int(Slice(record, 4, 6)),
                     height |-> bcd_to_int(Slice(record, 6, 8)),
                     offset |-> decode_pattern_offset(Slice(record, 9, 12))]>>
                  \o IndexLoop(rom, i + 1)

read_pattern_index(rom) == IndexLoop(rom, 0)

\* one list of pixels per row, in storage order
decode_monochrome_bitmap(rom, width, height, bitmap_offset) ==
    LET row_bytes == (width + 7) \div 8
    IN  [r \in 1..height |->
            LET row_offset == bitmap_offset + (r - 1) * row_bytes
                row_data == Slice(rom, row_offset, row_offset + row_bytes)
            IN  [x \in 1..Min(width, 8 * Len(row_data)) |->
                    Bit(row_data[((x - 1) \div 8) + 1], (x - 1) % 8)]]

\* one 4-bit value per row, in storage order
parse_memo_data(rom, offset, height) ==
    LET memo_bytes == (height + 1) \div 2
        memo_data == Slice(rom, offset, offset + memo_bytes)
    IN  [r \in 1..height |->
            LET memo_byte == memo_data[((r - 1) \div 2) + 1]
            IN  IF (r - 1) % 2 = 0 THEN memo_byte % 16
                ELSE memo_byte \div 16]

Digits == <<"0", "1", "2", "3", "4", "5", "6", "7", "8">>

\* memo_value_to_char with the digit range one wider: 9 gets a symbol
memo_value_to_char_NineAccepted(value) ==
    IF 0 <= value /\ value <= 9 THEN (Digits \o <<"9">>)[value + 1]
    ELSE IF value = 10 THEN "N"
    ELSE IF value = 11 THEN "F"
    ELSE "ValueError"

\* the character, or "ValueError" when the function raises
memo_value_to_char(value) ==
    IF 0 <= value /\ value <= 8 THEN Digits[value + 1]
    ELSE IF value = 10 THEN "N"
    ELSE IF value = 11 THEN "F"
    ELSE "ValueError"

Reversed(s) == [k \in 1..Len(s) |-> s[Len(s) + 1 - k]]

\* The image returned, or [raised |-> "ValueError"] with the pattern number
\* the handler printed. comment is <<>> when no metadata is attached.
extract_monochrome_bitmap(rom, pattern) ==
    LET memo_bytes == (pattern.height + 1) \div 2
        bitmap_offset == pattern.offset + memo_bytes
        memo_values == parse_memo_data(rom, pattern.offset, pattern.height)
        pixels == decode_monochrome_bitmap(rom, pattern.width, pattern.height,
                                           bitmap_offset)
        rows == Reversed(pixels)
        img == [y \in 1..pattern.height |->
                   [x \in 1..pattern.width |->
                       IF x <= Len(rows[y]) /\ rows[y][x] = 0 THEN 1 ELSE 0]]
        chars == [k \in 1..Len(memo_values) |->
                     memo_value_to_char(memo_values[k])]
    IN  IF \E k \in 1..Len(memo_values) : memo_values[k] # 0
        THEN IF \E k \in 1..Len(chars) : chars[k] = "ValueError"
             THEN [raised |-> "ValueError", reported |-> <<pattern.number>>]
             ELSE [raised |-> "", mode |-> "1", pixels |-> img,
                   comment |-> <<"AYAB:">> \o chars]
        ELSE [raised |-> "", mode |-> "1", pixels |-> img, comment |-> <<>>]

\* extract_multicolor_bitmap with the three source rows of a block tried
\* from the last to the first
extract_multicolor_bitmap_LastPlaneWins(rom, pattern) ==
    LET width == pattern.width
        real_height == pattern.height \div 3
        memo_bytes == (pattern.height + 1) \div 2
        bitmap_offset == pattern.offset + memo_bytes
        memo_values == parse_memo_data(rom, pattern.offset, pattern.height)
        mono_pixels == decode_monochrome_bitmap(rom, width, pattern.height,
                                                bitmap_offset)
        Color(row, x) ==
            LET base_row == row * 3
            IN  IF mono_pixels[base_row + 3][x] # 0
                THEN memo_values[base_row + 3]
                ELSE IF mono_pixels[base_row + 2][x] # 0
                THEN memo_values[base_row + 2]
                ELSE IF mono_pixels[base_row + 1][x] # 0
                THEN memo_values[base_row + 1]
                ELSE 0
        pixels == [r \in 1..real_height |->
                      [x \in 1..width |-> Color(r - 1, x)]]
    IN  [raised |-> "", mode |-> "P", pixels |-> Reversed(pixels),
         comment |-> <<>>]

extract_multicolor_bitmap(rom, pattern) ==
    LET width == pattern.width
        real_height == pattern.height \div 3
        memo_bytes == (pattern.height + 1) \div 2
        bitmap_offset == pattern.offset + memo_bytes
        memo_values == parse_memo_data(rom, pattern.offset, pattern.height)
        mono_pixels == decode_monochrome_bitmap(rom, width, pattern.height,
                                                bitmap_offset)
        Color(row, x) ==
            LET base_row == row * 3
            IN  IF mono_pixels[base_row + 1][x] # 0
                THEN memo_values[base_row + 1]
                ELSE IF mono_pixels[base_row + 2][x] # 0
                THEN memo_values[base_row + 2]
                ELSE IF mono_pixels[base_row + 3][x] # 0
                THEN memo_values[base_row + 3]
                ELSE 0
        pixels == [r \in 1..real_height |->
                      [x \in 1..width |-> Color(r - 1, x)]]
    IN  [raised |-> "", mode |-> "P", pixels |-> Reversed(pixels),
         comment |-> <<>>]

extract_pattern_bitmap(rom, pattern) ==
    IF pattern.type = 2
    THEN extract_monochrome_bitmap(rom, pattern)
    ELSE extract_multicolor_bitmap(rom, pattern)

-----------------------------------------------------------------------------
(* extract_patterns.py: main                                               *)

DataBase == index_base + PATTERN_COUNT * PATTERN_RECORD_SIZE

\* Index records of slot i: a recognised or unrecognised header, the slot's
\* own number i + 1, width 3, a height, and the offset of the pattern data.
\* The multicolor heights 3 and 7 give one and two visible rows.
RecordShapes ==
    {<< <<2, 0>>, 1 >>, << <<2, 0>>, 2 >>, << <<3, 0>>, 3 >>,
     << <<3, 0>>, 7 >>, << <<0, 0>>, 1 >>, << <<2, 1>>, 2 >>}

IndexRecord(i, shape) ==
    shape[1] \o <<i + 1, 0>> \o <<3, 0>> \o <<shape[2], 0>> \o <<0>>
        \o <<0, DataBase, 0>>

RECURSIVE Flatten(_)
Flatten(ss) == IF ss = <<>> THEN <<>> ELSE Head(ss) \o Flatten(Tail(ss))

IndexTables ==
    {Flatten([k \in 1..PATTERN_COUNT |-> IndexRecord(k - 1, f[k])]) :
        f \in [1..PATTERN_COUNT -> RecordShapes]}

\* The bytes after the first five of the pattern data: the bitmap rows 1..6
\* of a pattern of height 7, no bit set or rows that overlap in a column.
PatternTails == {<<0, 0, 0, 0, 0, 0>>, <<2, 4, 1, 7, 3, 0>>}

\* Pattern data at DataBase: two bytes that hold memo values (33 = 0x21,
\* 9 = 0x09, 144 = 0x90, 35 = 0x23), three that hold bitmap rows for the
\* heights up to 3 and memo values for height 7, and a tail of bitmap rows.
PatternData ==
    {<<m0, m1, r0, r1, r2>> \o tail :
        m0 \in {0, 33, 9, 144}, m1 \in {0, 35},
        r0 \in {0, 5}, r1 \in {0, 5}, r2 \in {0, 5}, tail \in PatternTails}

ExtractRomImages ==
    {[k \in 1..index_base |-> 1] \o t \o d :
        t \in IndexTables, d \in PatternData}

idleScan ==
    /\ patterns = <<>>
    /\ gaps = <<>>
    /\ results = <<>>
    /\ not_found = <<>>
    /\ ambiguous = <<>>
    /\ still_not_found = <<>>
    /\ search_log = <<>>
    /\ results_sorted = <<>>
    /\ printed = {}
    /\ rom_zeroed = <<>>

InitExtract ==
    /\ rom_data \in ExtractRomImages
    /\ pc = "read_index"
    /\ n = 1
    /\ descriptors = <<>>
    /\ saved = <<>>
    /\ errors = <<>>
    /\ idleScan
    /\ idleBcd
    /\ idleMemo

\* line 222
ReadIndex ==
    /\ pc = "read_index"
    /\ descriptors' = read_pattern_index(rom_data)
    /\ pc' = "extract"
    /\ n' = 1
    /\ UNCHANGED <<rom_data, saved, errors, scanVars, bcdVars, memoVars>>

\* lines 224-233: one iteration of the loop of main; an exception raised by
\* extract_pattern_bitmap is not caught and ends the program
ExtractStep ==
    /\ pc = "extract"
    /\ n <= Len(descriptors)
    /\ LET pattern == descriptors[n]
           img == extract_pattern_bitmap(rom_data, pattern)
       IN  IF img.raised # ""
           THEN /\ errors' = errors \o img.reported
                /\ pc' = "crashed"
                /\ UNCHANGED <<saved, n>>
           ELSE /\ saved' = Append(saved, [number |-> pattern.number,
                                           image |-> img])
                /\ n' = n + 1
                /\ UNCHANGED <<errors, pc>>
    /\ UNCHANGED <<rom_data, descriptors, scanVars, bcdVars, memoVars>>

\* the loop of main is over
FinishExtract ==
    /\ pc = "extract"
    /\ n > Len(descriptors)
    /\ pc' = "done"
    /\ UNCHANGED <<rom_data, n, descriptors, saved, errors, scanVars, bcdVars,
                   memoVars>>

NextExtract ==
    \/ ReadIndex
    \/ ExtractStep
    \/ FinishExtract

SpecExtract == InitExtract /\ [][NextExtract]_vars

-----------------------------------------------------------------------------
(* Claims about extract_patterns.py, checked under SpecExtract             *)

NumbersOf(seq) == {seq[k].number : k \in 1..Len(seq)}

\* C8: a decode error on one pattern aborts only that pattern, with its
\* number reported, and every later descriptor is still decoded: when the
\* program has ended, every descriptor was either saved or reported.
C8_BatchIsolation ==
    pc \in {"done", "crashed"} =>
        \A k \in 1..Len(descriptors) :
            \/ descriptors[k].number \in NumbersOf(saved)
            \/ \E j \in 1..Len(errors) : errors[j] = descriptors[k].number

\* slots of the index whose first two bytes are 02 00 or 03 00
ValidSlots ==
    {i \in 0..(PATTERN_COUNT - 1) :
        /\ rom_data[index_base + i * PATTERN_RECORD_SIZE + 1] \in {2, 3}
        /\ rom_data[index_base + i * PATTERN_RECORD_SIZE + 2] = 0}

\* C9: read_pattern_index returns exactly the records with a recognised
\* header, in index order, each decoded from its own record; the other
\* records are skipped, so the result has at most PATTERN_COUNT entries.
C9_IndexOutput ==
    pc # "read_index" =>
        /\ Len(descriptors) = Cardinality(ValidSlots)
        /\ Len(descriptors) <= PATTERN_COUNT
        /\ \A k \in 1..Len(descriptors) :
              \E i \in ValidSlots :
                  LET at == index_base + i * PATTERN_RECORD_SIZE
                  IN  /\ Cardinality({j \in ValidSlots : j < i}) = k - 1
                      /\ descriptors[k].type = rom_data[at + 1]
                      /\ descriptors[k].number = i + 1
                      /\ descriptors[k].width = 3
                      /\ descriptors[k].height = rom_data[at + 7]
                      /\ descriptors[k].offset = DataBase

\* an index whose first record has the header 02 01 and is skipped, and
\* whose last record is returned
C9_Witness ==
    /\ pc = "extract"
    /\ rom_data[index_base + 1] = 2
    /\ rom_data[index_base + 2] = 1
    /\ Len(descriptors) >= 1
    /\ descriptors[1].number > 1
    /\ descriptors[Len(descriptors)].number = PATTERN_COUNT

\* memo value of source row k of the pattern of descriptor d, read from the
\* ROM: low nibble of memo byte k/2 for even k, high nibble for odd k
MemoOfRow(d, k) ==
    LET memo_byte == rom_data[d.offset + (k \div 2) + 1]
    IN  IF k % 2 = 0 THEN memo_byte % 16 ELSE memo_byte \div 16

\* monochrome bit of source row k at column x, read from the ROM
MonoBit(d, k, x) ==
    LET row_bytes == (d.width + 7) \div 8
        at == d.offset + ((d.height + 1) \div 2) + k * row_bytes + (x \div 8)
    IN  (rom_data[at + 1] \div (2 ^ (x % 8))) % 2

\* colour of visible row r (storage order) at column x
FirstPlaneColour(d, r, x) ==
    LET set == {k \in {3 * r, 3 * r + 1, 3 * r + 2} : MonoBit(d, k, x) = 1}
    IN  IF set = {} THEN 0
        ELSE MemoOfRow(d, CHOOSE k \in set : \A j \in set : k <= j)

\* C13: the grid decoded from a multicolor descriptor has the descriptor's
\* width and floor(height / 3) visible rows; the colour of visible row r
\* (storage order) at column x is the memo value of the lowest source row
\* among 3r, 3r+1, 3r+2 whose bit is set at x, or 0 when none is set; the
\* visible rows are emitted in reverse order, the last stored row first.
C13_FirstPlaneWins ==
    \A k \in 1..Len(saved) :
        LET d == descriptors[k]
            grid == saved[k].image.pixels
            real_height == d.height \div 3
        IN  (saved[k].number = d.number /\ d.type # 2) =>
                /\ saved[k].image.mode = "P"
                /\ Len(grid) = real_height
                /\ \A y \in 1..real_height :
                      /\ Len(grid[y]) = d.width
                      /\ \A x \in 1..d.width :
                            grid[y][x] =
                                FirstPlaneColour(d, real_height - y, x - 1)

\* every image saved is the image of the descriptor at the same position
C13_SavedInOrder ==
    /\ Len(saved) <= Len(descriptors)
    /\ \A k \in 1..Len(saved) : saved[k].number = descriptors[k].number

\* a pattern of height 7 decoded to two different visible rows: the upper
\* one from source rows 3..5, where row 3 wins column 0 over row 4, the
\* lower one from source rows 0..2, where row 0 wins column 2 over row 2
C13_Witness ==
    /\ pc = "done"
    /\ Slice(rom_data, DataBase, DataBase + 11)
           = <<33, 35, 0, 0, 5, 2, 4, 1, 7, 3, 0>>
    /\ \E k \in 1..Len(saved) :
          /\ descriptors[k].type = 3
          /\ descriptors[k].height = 7
          /\ saved[k].image.pixels = << <<2, 0, 0>>, <<1, 2, 1>> >>

\* colour indices of the saved multicolor grids
MulticolorColours ==
    UNION {{saved[k].image.pixels[y][x] :
                y \in 1..Len(saved[k].image.pixels),
                x \in 1..descriptors[k].width} :
           k \in {j \in 1..Len(saved) : saved[j].image.mode = "P"}}

\* C14: a memo value outside 0..3 is a decode error for a multicolor
\* pattern, so no multicolor raster is produced that contains a colour
\* index outside the 4-entry palette 0..3.
C14_PaletteRange == MulticolorColours \subseteq 0..3

\* what the code produces: every colour index is a memo nibble, 0..15
C14_ColoursAreNibbles == MulticolorColours \subseteq 0..15

-----------------------------------------------------------------------------
(* bcd_to_int as a pure function, checked under SpecBcd                    *)

BcdNibbles == {0, 1, 6, 9, 10, 15}
BcdBytes == {16 * h + l : h \in BcdNibbles, l \in BcdNibbles}

InitBcd ==
    /\ bcd_in \in UNION {[1..k -> BcdBytes] : k \in 0..MaxBcdLen}
    /\ bcd_out = 0
    /\ pc = "call"
    /\ n = 1
    /\ rom_data = <<>>
    /\ idleScan
    /\ idleExtract
    /\ idleMemo

CallBcdToInt ==
    /\ pc = "call"
    /\ bcd_out' = bcd_to_int(bcd_in)
    /\ pc' = "return"
    /\ UNCHANGED <<rom_data, n, bcd_in, scanVars, extractVars, memoVars>>

NextBcd == CallBcdToInt

SpecBcd == InitBcd /\ [][NextBcd]_vars

ValidBcd(bytes) ==
    \A k \in 1..Len(bytes) : bytes[k] % 16 <= 9 /\ bytes[k] \div 16 <= 9

\* C10: for bytes whose nibbles are all <= 9, bcd_to_int returns the number
\* whose decimal digits are, from the least significant, the low and the
\* high nibble of byte 0, then of byte 1, and so on; so [0x01,0x00] gives 1,
\* [0x19,0x06] gives 619, [0x66,0x00] gives 66, [0x00,0x01] gives 100, and
\* a 2-byte field gives a value in 0..9999.
C10_BcdValue ==
    (pc = "return" /\ ValidBcd(bcd_in)) =>
        /\ \A k \in 1..Len(bcd_in) :
              /\ (bcd_out \div 10 ^ (2 * k - 2)) % 10 = bcd_in[k] % 16
              /\ (bcd_out \div 10 ^ (2 * k - 1)) % 10 = bcd_in[k] \div 16
        /\ 0 <= bcd_out /\ bcd_out < 10 ^ (2 * Len(bcd_in))
        /\ bcd_in = <<1, 0>> => bcd_out = 1
        /\ bcd_in = <<25, 6>> => bcd_out = 619
        /\ bcd_in = <<102, 0>> => bcd_out = 66
        /\ bcd_in = <<0, 1>> => bcd_out = 100
        /\ Len(bcd_in) = 2 => bcd_out \in 0..9999

\* the fixture [0x19, 0x06] decoded
C10_Witness ==
    /\ pc = "return"
    /\ bcd_in = <<25, 6>>
    /\ bcd_out = 619

\* bcd_to_int has failed: a raised error is returned as a value that is no
\* integer, as memo_value_to_char returns "ValueError"
BcdFailed == bcd_out \notin Int

\* C11: for every byte sequence in which some nibble exceeds 9, bcd_to_int
\* fails with a decode error instead of returning an integer.
C11_BcdRejectsInvalid ==
    (pc = "return" /\ ~ValidBcd(bcd_in)) => BcdFailed

\* what bcd_to_int returns for such bytes: each nibble is weighted as if it
\* were a decimal digit, so 0x0A decodes like 0x10
C11_InvalidBcdDecoded ==
    (pc = "return" /\ Len(bcd_in) = 1) =>
        bcd_out = (bcd_in[1] % 16) + 10 * (bcd_in[1] \div 16)

-----------------------------------------------------------------------------
(* The memo codec: parse_memo_data and memo_value_to_char                  *)

MemoBytes == 0..255

\* arguments of memo_value_to_char that no nibble can be
ValuesOutsideNibble == {-2, -1, 16, 17, 255}

\* Either memo bytes to parse for n rows, or a value handed to
\* memo_value_to_char directly.
InitMemo ==
    /\ \/ /\ pc = "parse"
          /\ \E height \in 1..MaxMemoRows :
                /\ n = height
                /\ rom_data \in [1..((height + 1) \div 2) -> MemoBytes]
          /\ memo_in = <<>>
       \/ /\ pc = "convert"
          /\ n = 1
          /\ rom_data = <<>>
          /\ memo_in \in {<<v>> : v \in ValuesOutsideNibble}
    /\ memo_out = <<>>
    /\ idleScan
    /\ idleExtract
    /\ idleBcd

ParseMemo ==
    /\ pc = "parse"
    /\ memo_in' = parse_memo_data(rom_data, 0, n)
    /\ pc' = "convert"
    /\ UNCHANGED <<rom_data, n, memo_out, scanVars, extractVars, bcdVars>>

\* one call of memo_value_to_char per value, as the join in
\* extract_monochrome_bitmap makes them
ConvertMemo ==
    /\ pc = "convert"
    /\ memo_out' = [k \in 1..Len(memo_in) |-> memo_value_to_char(memo_in[k])]
    /\ pc' = "done"
    /\ UNCHANGED <<rom_data, n, memo_in, scanVars, extractVars, bcdVars>>

NextMemo == ParseMemo \/ ConvertMemo

SpecMemo == InitMemo /\ [][NextMemo]_vars

\* the symbol table of the memo values, written out
MemoSymbol(v) ==
    CASE v = 0 -> "0" [] v = 1 -> "1" [] v = 2 -> "2" [] v = 3 -> "3"
      [] v = 4 -> "4" [] v = 5 -> "5" [] v = 6 -> "6" [] v = 7 -> "7"
      [] v = 8 -> "8" [] v = 10 -> "N" [] v = 11 -> "F"
      [] OTHER -> "ValueError"

\* C12: each of 0..8 maps to its decimal digit character, 10 to 'N', 11 to
\* 'F', and every other value (9, 12..15, and anything outside 0..15) fails
\* with a decode error and returns no symbol; the values parsed from memo
\* bytes are the low nibble for even rows and the high nibble for odd rows.
C12_MemoSymbols ==
    /\ pc = "done" =>
          /\ Len(memo_out) = Len(memo_in)
          /\ \A k \in 1..Len(memo_in) :
                /\ memo_out[k] = MemoSymbol(memo_in[k])
                /\ memo_in[k] \in {9, 12, 13, 14, 15} =>
                      memo_out[k] = "ValueError"
                /\ memo_in[k] \notin 0..15 => memo_out[k] = "ValueError"
    /\ (pc \in {"convert", "done"} /\ rom_data # <<>>) =>
          /\ Len(memo_in) = n
          /\ \A k \in 1..n :
                memo_in[k] = IF k % 2 = 1
                             THEN rom_data[(k + 1) \div 2] % 16
                             ELSE rom_data[(k + 1) \div 2] \div 16

\* memo byte 0x9A: row 0 gets 'N', row 1 holds 9 and fails
C12_Witness ==
    /\ pc = "done"
    /\ rom_data = <<154>>
    /\ n = 2
    /\ memo_in = <<10, 9>>
    /\ memo_out = <<"N", "ValueError">>

====
